---- MODULE Spec2Model ----
(***************************************************************************)
(* Model of sfe::Demuxer (src/pixelsort/video/Demuxer.cpp): the stream     *)
(* table built by the constructor, the feed loop, the dispatch policy, the *)
(* pending packet queue, stream selection, the seek notification and the   *)
(* destructor, with the recursive mutex m_synchronized.                    *)
(*                                                                         *)
(* A packet (an AVPacket pointer) is the number of the read that returned  *)
(* it; pktStream[p] is its stream_index.  ledger[p] lists what the Demuxer *)
(* did with the packet, one entry per call in the source.                  *)
(*                                                                         *)
(* The container file is a fixed sequence of packets that the model learns *)
(* as it is read: m_formatCtx.packets is the part read so far, and ended   *)
(* says that it is the whole file.                                         *)
(***************************************************************************)
EXTENDS Integers, Sequences, FiniteSets, TLC

\* ---------------------------------------------------------------- bounds
NumStreams == 2       \* container streams have the indices 0..NumStreams-1
MaxPackets == 3       \* packets read from the container in one behaviour

Ids == 0 .. (NumStreams - 1)
NoStream == -1        \* nullptr for a std::shared_ptr<Stream>
NoThread == "none"
AV_TIME_BASE == 1000000
AV_NOPTS_VALUE == -1  \* stands for INT64_MIN, which no duration drawn here equals
Threads == {"main", "worker"}
Kinds == {"video", "videoBad", "other"}
  \* "videoBad": AVMEDIA_TYPE_VIDEO stream whose VideoStream constructor throws

\* The operations modelled only compare stream indices, so the containers
\* are taken up to a renaming of the indices: the video streams first, the
\* passive ones before the others.
KindRank(k) == IF k = "video" THEN 0 ELSE IF k = "videoBad" THEN 1 ELSE 2

Containers ==
  { kinds \in [Ids -> Kinds] :
      \A i, j \in Ids : i < j => KindRank(kinds[i]) <= KindRank(kinds[j]) }

PassiveSets(streams) ==
  { q \in SUBSET streams : \A i \in q, j \in streams : j < i => j \in q }

VARIABLES
  m_formatCtx,                   \* [open, duration, streams, durations,
                                 \*  packets, ended, pos]
  m_eofReached,
  m_streams,                     \* keys of the std::map (stream = its key)
  m_ignoredStreams,              \* keys of the std::map
  m_synchronized,                \* [owner, count] (sf::Mutex is recursive)
  m_timer,                       \* [status, observed]
  m_connectedVideoStream,
  m_duration,                    \* sf::Time, in microseconds
  m_pendingDataForActiveStreams, \* std::list<AVPacket*>
  passive,                       \* streams whose isPassive() is true
  needs,                         \* Stream::needsMoreData() per stream
  connected,                     \* streams between connect() and disconnect()
  received,                      \* packets pushed to each stream, in order
  pktStream,                     \* stream_index of every packet read
  ledger,                        \* events of every packet read
  pc,                            \* position of each thread
  stream,                        \* the Stream argument of the running call
  oldStatus,                     \* local of selectVideoStream
  raised,                        \* the thread's last call ended by an exception
  destroyed

vars == << m_formatCtx, m_eofReached, m_streams, m_ignoredStreams, m_duration,
           m_synchronized, m_timer, m_connectedVideoStream,
           m_pendingDataForActiveStreams, passive, needs, connected,
           received, pktStream, ledger, pc, stream, oldStatus, raised,
           destroyed >>

\* ------------------------------------------------------------ sequences
RemoveAt(q, i) == SubSeq(q, 1, i - 1) \o SubSeq(q, i + 1, Len(q))

Range(q) == { q[i] : i \in 1 .. Len(q) }

Count(q, x) == Cardinality({ i \in 1 .. Len(q) : q[i] = x })

\* ------------------------------------------------------------- the mutex
Unlocked == [owner |-> NoThread, count |-> 0]

\* sf::Lock l(m_synchronized): the constructor blocks while another thread owns it
CanLock(t) == m_synchronized.owner \in {NoThread, t}

Lock(m, t) == [owner |-> t, count |-> m.count + 1]

Unlock(m) == IF m.count = 1 THEN Unlocked ELSE [m EXCEPT !.count = m.count - 1]

\* ------------------------------------------------------------ constructor
\* secs = d / AV_TIME_BASE; us = d % AV_TIME_BASE;
\* sf::seconds(secs + (float)us / AV_TIME_BASE), lines 137-140 and 428-431,
\* as the microseconds of the sf::Time.  The float is exact for the
\* durations drawn here, which are multiples of half a second.
ToTime(d) ==
  LET secs == d \div AV_TIME_BASE
      us == d % AV_TIME_BASE
  IN secs * 1000000 + us \div (AV_TIME_BASE \div 1000000)

\* extractDurationFromStream, lines 421-433: the new m_duration
extractDurationFromStream(duration, d) ==
  IF duration # 0 THEN duration
  ELSE IF d # AV_NOPTS_VALUE THEN ToTime(d)
  ELSE duration

\* the loop of lines 144-177 from stream i on; tables is [m_streams,
\* m_ignoredStreams, m_duration] so far.  The VideoStream constructor of a
\* "videoBad" stream throws at line 153: the catch of line 169 logs it and
\* the loop goes on.
RECURSIVE ConstructorLoop_abort(_, _, _, _)
\* the constructor loop with the try around the loop instead of inside it:
\* the first stream that fails ends the loop
ConstructorLoop_abort(kinds, durations, i, tables) ==
  IF i >= NumStreams THEN tables
  ELSE IF kinds[i] = "videoBad" THEN tables
  ELSE ConstructorLoop_abort(kinds, durations, i + 1,
         IF kinds[i] = "video"
         THEN [tables EXCEPT
                 !.m_streams = @ \cup {i},
                 !.m_duration =
                    IF @ = 0 THEN extractDurationFromStream(@, durations[i])
                    ELSE @]
         ELSE [tables EXCEPT !.m_ignoredStreams = @ \cup {i}])

RECURSIVE ConstructorLoop(_, _, _, _)
ConstructorLoop(kinds, durations, i, tables) ==
  IF i >= NumStreams THEN tables
  ELSE ConstructorLoop(kinds, durations, i + 1,
         IF kinds[i] = "video"
         THEN [tables EXCEPT
                 !.m_streams = @ \cup {i},
                 !.m_duration =
                    IF @ = 0 THEN extractDurationFromStream(@, durations[i])
                    ELSE @]
         ELSE IF kinds[i] = "videoBad"
              THEN tables
              ELSE [tables EXCEPT !.m_ignoredStreams = @ \cup {i}])

\* the constructor without lines 135-141: the container's duration is not read
Constructor_noContainerDuration(kinds, duration, durations) ==
  ConstructorLoop(kinds, durations, 0,
    [m_streams |-> {}, m_ignoredStreams |-> {}, m_duration |-> 0])

\* the constructor, lines 106-185, from the initialisers to the loop: the
\* tables and the duration it leaves
Constructor(kinds, duration, durations) ==
  ConstructorLoop(kinds, durations, 0,
    [m_streams |-> {}, m_ignoredStreams |-> {},
     m_duration |-> IF duration # AV_NOPTS_VALUE THEN ToTime(duration) ELSE 0])

NoDurations == [i \in Ids |-> AV_NOPTS_VALUE]

CtorStreams(kinds) == Constructor(kinds, AV_NOPTS_VALUE, NoDurations).m_streams

CtorIgnoredStreams(kinds) ==
  Constructor(kinds, AV_NOPTS_VALUE, NoDurations).m_ignoredStreams

\* the state after the constructor (lines 106-185) over the given container
\* and, when sel is a stream, after selectVideoStream(sel) on the stopped,
\* freshly constructed Demuxer
ConstructedOver(kinds, duration, durations, sel) ==
  /\ m_formatCtx = [open |-> TRUE, duration |-> duration, streams |-> kinds,
                    durations |-> durations, packets |-> << >>,
                    ended |-> FALSE, pos |-> 0]
  /\ m_streams = Constructor(kinds, duration, durations).m_streams
  /\ m_ignoredStreams = Constructor(kinds, duration, durations).m_ignoredStreams
  /\ m_duration = Constructor(kinds, duration, durations).m_duration
  /\ sel \in m_streams \cup {NoStream}
  /\ m_eofReached = FALSE
  /\ m_synchronized = Unlocked
  /\ m_timer = [status |-> "Stopped", observed |-> TRUE]
  /\ m_connectedVideoStream = sel
  /\ m_pendingDataForActiveStreams = << >>
  /\ needs = [s \in m_streams |-> TRUE]
  /\ connected = {sel} \ {NoStream}
  /\ received = [s \in m_streams |-> << >>]
  /\ pktStream = << >>
  /\ ledger = << >>
  /\ pc = [t \in Threads |-> "idle"]
  /\ stream = [t \in Threads |-> NoStream]
  /\ oldStatus = "Stopped"
  /\ raised = [t \in Threads |-> FALSE]
  /\ destroyed = FALSE

\* a container of Containers that reports no duration
Constructed(sel) ==
  /\ \E kinds \in Containers :
       ConstructedOver(kinds, AV_NOPTS_VALUE, NoDurations, sel)
  /\ passive \in PassiveSets(m_streams)

Init == Constructed(NoStream)

\* any container that reports no duration, its streams in any order
InitAnyContainer ==
  /\ \E kinds \in [Ids -> Kinds] :
       ConstructedOver(kinds, AV_NOPTS_VALUE, NoDurations, NoStream)
  /\ passive \in SUBSET m_streams

\* what a container or a stream may report as its duration: nothing, zero,
\* or a number of AV_TIME_BASE units
DurationValues ==
  { AV_NOPTS_VALUE, 0, (3 * AV_TIME_BASE) \div 2, 2 * AV_TIME_BASE }

\* any container, with any durations
InitAnyDuration ==
  /\ \E kinds \in [Ids -> Kinds], duration \in DurationValues,
        durations \in [Ids -> DurationValues] :
       ConstructedOver(kinds, duration, durations, NoStream)
  /\ passive = {}

\* getDuration, lines 328-331
getDuration == m_duration

\* ------------------------------------------------ stream descriptors
\* Stream::getStreamKind of a stream of the table, which holds VideoStreams
getStreamKind(s) == "Video"

\* the loop of computeStreamDescriptors, lines 227-237, over the part S of
\* the std::map, in key order
RECURSIVE DescriptorsOf(_, _)
DescriptorsOf(S, type) ==
  IF S = {} THEN << >>
  ELSE LET i == CHOOSE x \in S : \A y \in S : x <= y
       IN (IF getStreamKind(i) = type THEN << i >> ELSE << >>)
            \o DescriptorsOf(S \ {i}, type)

\* computeStreamDescriptors, lines 222-240: the identifiers of the entries
computeStreamDescriptors(type) == DescriptorsOf(m_streams, type)

\* ------------------------------------------------------- the Stream side
\* Stream::canUsePacket: the packet carries the stream's own identifier
canUsePacket(s, p) == pktStream[p] = s

isPassive(s) == s \in passive

needsMoreData(s) == needs[s]

\* what a push may leave of the stream's need for data: a stream that needs
\* data may be satisfied by the packet or not, one that needs none stays so
NeedsAfterPush(s) == IF needs[s] THEN BOOLEAN ELSE {FALSE}

\* ------------------------------------------------------------ the ledger
Logged(l, p, e) == [l EXCEPT ![p] = Append(@, e)]

Packets == 1 .. Len(pktStream)

Pushes(p) == Count(ledger[p], "pushed")

Frees(p) == Count(ledger[p], "dropped") + Count(ledger[p], "flushed")

Queued(p) == Count(m_pendingDataForActiveStreams, p)

\* the object exists and its destructor has not been entered
DtorPcs == {"dtor_unobserve", "dtor_close", "dtor_flush"}

Alive == ~destroyed /\ \A u \in Threads : pc[u] \notin DtorPcs

\* ------------------------------------------------------------- feedStream
didReachEndOfFile == m_eofReached

getSelectedVideoStream == m_connectedVideoStream

\* gatherQueuedPacketForStream walking the list from its end
gatherQueuedPacketForStream_last(s) ==
  LET q == m_pendingDataForActiveStreams
      hits == { i \in 1 .. Len(q) : canUsePacket(s, q[i]) }
  IN IF hits = {} THEN 0 ELSE CHOOSE i \in hits : \A j \in hits : i >= j

\* position in the list of the first packet the stream can use, 0 for NULL
gatherQueuedPacketForStream(s) ==
  LET q == m_pendingDataForActiveStreams
      hits == { i \in 1 .. Len(q) : canUsePacket(s, q[i]) }
  IN IF hits = {} THEN 0 ELSE CHOOSE i \in hits : \A j \in hits : i <= j

\* what av_read_frame can give at the cursor: the stream_index of the next
\* packet, NoStream when it fails at the end of the file.  Past the part of
\* the file read so far, the file either goes on with a packet of any stream
\* (while the behaviour has packets left) or ends there.
NextInFile ==
  IF m_formatCtx.pos < Len(m_formatCtx.packets)
  THEN { m_formatCtx.packets[m_formatCtx.pos + 1] }
  ELSE IF m_formatCtx.ended \/ Len(pktStream) >= MaxPackets
       THEN { NoStream }
       ELSE Ids \cup { NoStream }

\* m_formatCtx after av_read_frame gave index
AfterRead(index) ==
  IF index = NoStream
  THEN [m_formatCtx EXCEPT !.ended = TRUE]
  ELSE [m_formatCtx EXCEPT
          !.pos = @ + 1,
          !.packets = IF m_formatCtx.pos < Len(@) THEN @ ELSE Append(@, index)]

\* distributePacket with "result = true" in the push branch only: a queued
\* packet is reported as not accepted
distributePacket_queuedNotAccepted(index, s) ==
  IF index \in m_streams
  THEN IF index = getSelectedVideoStream
       THEN IF index = s \/ isPassive(index)
            THEN [did |-> "push", result |-> TRUE]
            ELSE [did |-> "queue", result |-> FALSE]
       ELSE [did |-> "none", result |-> FALSE]
  ELSE [did |-> "none", result |-> FALSE]

\* distributePacket without the comparison with the selected stream
distributePacket_anyTarget(index, s) ==
  IF index \in m_streams
  THEN IF index = s \/ isPassive(index)
       THEN [did |-> "push", result |-> TRUE]
       ELSE [did |-> "queue", result |-> TRUE]
  ELSE [did |-> "none", result |-> FALSE]

\* distributePacket queueing the packets of the streams that are not selected
distributePacket_queueOthers(index, s) ==
  IF index \in m_streams
  THEN IF index = getSelectedVideoStream
       THEN IF index = s \/ isPassive(index)
            THEN [did |-> "push", result |-> TRUE]
            ELSE [did |-> "queue", result |-> TRUE]
       ELSE [did |-> "queue", result |-> TRUE]
  ELSE [did |-> "none", result |-> FALSE]

\* distributePacket testing the requester before the selection
distributePacket_requesterFirst(index, s) ==
  IF index \in m_streams
  THEN IF index = s \/ isPassive(index)
       THEN IF index = getSelectedVideoStream
            THEN [did |-> "push", result |-> TRUE]
            ELSE [did |-> "none", result |-> FALSE]
       ELSE [did |-> "queue", result |-> TRUE]
  ELSE [did |-> "none", result |-> FALSE]

\* distributePacket without "|| targetStream->isPassive()"
distributePacket_noPassive(index, s) ==
  IF index \in m_streams
  THEN IF index = getSelectedVideoStream
       THEN IF index = s
            THEN [did |-> "push", result |-> TRUE]
            ELSE [did |-> "queue", result |-> TRUE]
       ELSE [did |-> "none", result |-> FALSE]
  ELSE [did |-> "none", result |-> FALSE]

\* distributePacket, lines 393-419, for a packet of the given stream_index
\* when s is the requesting stream: did is what it does with the packet
\* ("push": pushEncodedData, "queue": queueEncodedData, "none"), result is
\* the value it returns
distributePacket(index, s) ==
  IF index \in m_streams
  THEN IF index = getSelectedVideoStream
       THEN IF index = s \/ isPassive(index)
            THEN [did |-> "push", result |-> TRUE]
            ELSE [did |-> "queue", result |-> TRUE]
       ELSE [did |-> "none", result |-> FALSE]
  ELSE [did |-> "none", result |-> FALSE]

\* the loop condition with || for &&
FeedCondition_or(s) == ~didReachEndOfFile \/ needsMoreData(s)

\* the loop is entered only for the selected stream
FeedCondition_selectedOnly(s) ==
  ~didReachEndOfFile /\ needsMoreData(s) /\ s = getSelectedVideoStream

\* the loop goes on at the end of the file while the queue has a packet
\* for the requester
FeedCondition_queueAtEof(s) ==
  /\ needsMoreData(s)
  /\ (~didReachEndOfFile \/ gatherQueuedPacketForStream(s) # 0)

\* the loop condition without the requester's needsMoreData()
FeedCondition_eofOnly(s) == ~didReachEndOfFile

\* while (!didReachEndOfFile() && stream.needsMoreData()), line 284
FeedCondition(s) == ~didReachEndOfFile /\ needsMoreData(s)

\* "m_eofReached = true" outside the test of the packet: set by every iteration
EofAfterIteration_always(gotPacket, accepted) == TRUE

\* a packet that distributePacket refuses ends the feed like the end of file
EofAfterIteration_onReject(gotPacket, accepted) ==
  IF ~gotPacket \/ ~accepted THEN TRUE ELSE m_eofReached

\* m_eofReached after an iteration, lines 293-296: set when neither the
\* queue nor the container gave a packet
EofAfterIteration(gotPacket, accepted) ==
  IF ~gotPacket THEN TRUE ELSE m_eofReached

\* sf::Lock l(m_synchronized) of feedStream, called directly
feedStream(t, s) ==
  /\ pc[t] = "idle" /\ Alive
  /\ s \in m_streams
  /\ CanLock(t)
  /\ m_synchronized' = Lock(m_synchronized, t)
  /\ pc' = [pc EXCEPT ![t] = "feed"]
  /\ stream' = [stream EXCEPT ![t] = s]
  /\ raised' = [raised EXCEPT ![t] = FALSE]
  /\ UNCHANGED << m_formatCtx, m_eofReached, m_streams, m_ignoredStreams, m_duration,
                  m_timer, m_connectedVideoStream,
                  m_pendingDataForActiveStreams, passive, needs, connected,
                  received, pktStream, ledger, oldStatus, destroyed >>

\* requestMoreData locks, then calls feedStream, which locks again
requestMoreData(t, s) ==
  /\ pc[t] = "idle" /\ Alive
  /\ s \in m_streams
  /\ CanLock(t)
  /\ m_synchronized' = Lock(Lock(m_synchronized, t), t)
  /\ pc' = [pc EXCEPT ![t] = "feed"]
  /\ stream' = [stream EXCEPT ![t] = s]
  /\ raised' = [raised EXCEPT ![t] = FALSE]
  /\ UNCHANGED << m_formatCtx, m_eofReached, m_streams, m_ignoredStreams, m_duration,
                  m_timer, m_connectedVideoStream,
                  m_pendingDataForActiveStreams, passive, needs, connected,
                  received, pktStream, ledger, oldStatus, destroyed >>

\* the packet put in front of the list
queueEncodedData_front(q, pkt) == << pkt >> \o q

\* queueEncodedData, lines 369-373: m_pendingDataForActiveStreams.push_back
queueEncodedData(q, pkt) == Append(q, pkt)

\* one iteration of the loop of feedStream, lines 284-309: the packet comes
\* from the queue (position g) or else from readPacket, which gives the
\* packet read or NULL; it is handed to distributePacket and freed when that
\* returns false
FeedIteration(t) ==
  /\ pc[t] = "feed"
  /\ m_synchronized.owner = t
  /\ FeedCondition(stream[t])
  /\ LET s == stream[t]
         g == gatherQueuedPacketForStream(s)
     IN \E readPacket \in IF g # 0 THEN { NoStream } ELSE NextInFile :
          LET gotPacket == g # 0 \/ readPacket # NoStream
              index == IF g # 0 THEN pktStream[m_pendingDataForActiveStreams[g]]
                       ELSE readPacket
              pkt == IF g # 0 THEN m_pendingDataForActiveStreams[g]
                     ELSE Len(pktStream) + 1
              queue1 == IF g # 0 THEN RemoveAt(m_pendingDataForActiveStreams, g)
                        ELSE m_pendingDataForActiveStreams
              ledger1 == IF g # 0 THEN Logged(ledger, pkt, "gathered")
                         ELSE Append(ledger, << >>)
              d == distributePacket(index, s)
              ledger2 == IF d.did = "push" THEN Logged(ledger1, pkt, "pushed")
                         ELSE IF d.did = "queue" THEN Logged(ledger1, pkt, "queued")
                         ELSE ledger1
          IN IF ~gotPacket
             THEN /\ m_eofReached' = EofAfterIteration(FALSE, FALSE)
                  /\ m_formatCtx' = AfterRead(NoStream)
                  /\ UNCHANGED << m_pendingDataForActiveStreams, needs,
                                  received, pktStream, ledger >>
             ELSE /\ m_eofReached' = EofAfterIteration(TRUE, d.result)
                  /\ m_formatCtx' = IF g # 0 THEN m_formatCtx ELSE AfterRead(index)
                  /\ pktStream' = IF g # 0 THEN pktStream ELSE Append(pktStream, index)
                  /\ IF d.did = "push"
                     THEN /\ received' = [received EXCEPT ![index] = Append(@, pkt)]
                          /\ \E n \in NeedsAfterPush(index) :
                               needs' = [needs EXCEPT ![index] = n]
                     ELSE UNCHANGED << received, needs >>
                  /\ m_pendingDataForActiveStreams' =
                       IF d.did = "queue" THEN queueEncodedData(queue1, pkt) ELSE queue1
                  /\ ledger' = IF d.result THEN ledger2
                               ELSE Logged(ledger2, pkt, "dropped")
  /\ UNCHANGED << m_streams, m_ignoredStreams, m_duration, m_synchronized, m_timer,
                  m_connectedVideoStream, passive, connected, pc, stream,
                  oldStatus, raised, destroyed >>

\* the loop condition is false: feedStream returns, and requestMoreData with
\* it; the sf::Lock destructors release every level of the mutex
FeedReturn(t) ==
  /\ pc[t] = "feed"
  /\ m_synchronized.owner = t
  /\ ~FeedCondition(stream[t])
  /\ m_synchronized' = Unlocked
  /\ pc' = [pc EXCEPT ![t] = "idle"]
  /\ stream' = [stream EXCEPT ![t] = NoStream]
  /\ UNCHANGED << m_formatCtx, m_eofReached, m_streams, m_ignoredStreams, m_duration,
                  m_timer, m_connectedVideoStream,
                  m_pendingDataForActiveStreams, passive, needs, connected,
                  received, pktStream, ledger, oldStatus, raised,
                  destroyed >>

\* ------------------------------------------------- seek and flushBuffers
\* Timer notifies its observers of a seek: willSeek is entered, line 447.
\* A seek is taken only while the packets of one more pass over the part of
\* the file read so far fit in MaxPackets.
willSeek(t) ==
  /\ pc[t] = "idle" /\ Alive
  /\ m_timer.observed
  /\ Len(pktStream) + Len(m_formatCtx.packets) <= MaxPackets
  /\ pc' = [pc EXCEPT ![t] = "ws_reset"]
  /\ raised' = [raised EXCEPT ![t] = FALSE]
  /\ UNCHANGED << m_formatCtx, m_eofReached, m_streams, m_ignoredStreams, m_duration,
                  m_synchronized, m_timer, m_connectedVideoStream,
                  m_pendingDataForActiveStreams, passive, needs, connected,
                  received, pktStream, ledger, stream, oldStatus, destroyed >>

\* resetEndOfFileStatus, lines 442-445, called by willSeek or, being
\* public, by the owner of the Demuxer: no lock is taken
resetEndOfFileStatus(t) ==
  /\ \/ pc[t] = "ws_reset"
     \/ pc[t] = "idle" /\ Alive
  /\ m_eofReached' = FALSE
  /\ pc' = [pc EXCEPT ![t] = IF pc[t] = "ws_reset" THEN "ws_flush" ELSE "idle"]
  /\ raised' = [raised EXCEPT ![t] = FALSE]
  /\ UNCHANGED << m_formatCtx, m_streams, m_ignoredStreams, m_duration,
                  m_synchronized, m_timer, m_connectedVideoStream,
                  m_pendingDataForActiveStreams, passive, needs, connected,
                  received, pktStream, ledger, stream, oldStatus,
                  destroyed >>

\* the ledger after av_free_packet/av_free of every packet of the list
RECURSIVE FlushedLedger(_, _)
FlushedLedger(l, q) ==
  IF q = << >> THEN l ELSE FlushedLedger(Logged(l, Head(q), "flushed"), Tail(q))

\* flushBuffers without m_pendingDataForActiveStreams.clear()
flushBuffers_noClear(t) ==
  /\ pc[t] \in {"ws_flush", "dtor_flush"}
  /\ CanLock(t)
  /\ ledger' = FlushedLedger(ledger, m_pendingDataForActiveStreams)
  /\ m_pendingDataForActiveStreams' = m_pendingDataForActiveStreams
  /\ pc' = [pc EXCEPT ![t] = IF pc[t] = "ws_flush" THEN "ws_seek" ELSE "idle"]
  /\ destroyed' = (pc[t] = "dtor_flush")
  /\ UNCHANGED << m_formatCtx, m_eofReached, m_streams, m_ignoredStreams, m_duration,
                  m_synchronized, m_timer, m_connectedVideoStream, passive,
                  needs, connected, received, pktStream, stream, oldStatus,
                  raised >>

\* flushBuffers, lines 356-367, under its own sf::Lock; called by willSeek
\* and by the destructor
flushBuffers(t) ==
  /\ pc[t] \in {"ws_flush", "dtor_flush"}
  /\ CanLock(t)
  /\ ledger' = FlushedLedger(ledger, m_pendingDataForActiveStreams)
  /\ m_pendingDataForActiveStreams' = << >>
  /\ pc' = [pc EXCEPT ![t] = IF pc[t] = "ws_flush" THEN "ws_seek" ELSE "idle"]
  /\ destroyed' = (pc[t] = "dtor_flush")
  /\ UNCHANGED << m_formatCtx, m_eofReached, m_streams, m_ignoredStreams, m_duration,
                  m_synchronized, m_timer, m_connectedVideoStream, passive,
                  needs, connected, received, pktStream, stream, oldStatus,
                  raised >>

\* avformat_seek_file, lines 452-475: a backward seek to the start of the
\* media; a failure is logged and nothing else is done.  A failed seek is
\* taken to leave the cursor where it was.
SeekFile(t) ==
  /\ pc[t] = "ws_seek"
  /\ \E ok \in BOOLEAN :
       m_formatCtx' = [m_formatCtx EXCEPT !.pos = IF ok THEN 0 ELSE @]
  /\ pc' = [pc EXCEPT ![t] = "idle"]
  /\ UNCHANGED << m_eofReached, m_streams, m_ignoredStreams, m_duration,
                  m_synchronized, m_timer, m_connectedVideoStream,
                  m_pendingDataForActiveStreams, passive, needs, connected,
                  received, pktStream, ledger, stream, oldStatus, raised,
                  destroyed >>

\* ------------------------------------------------------ selectVideoStream
\* selectVideoStream without the CHECK
SelectionAllowed_always(status) == TRUE

\* CHECK(oldStatus == Stopped, ...), line 245: throws when it does not hold
SelectionAllowed(status) == status = "Stopped"

\* lines 244-251: the status check, the pause of a playing timer and the
\* comparison with the connected stream; selecting the connected stream
\* again goes straight to lines 264-265 and returns
selectVideoStream(t, s) ==
  /\ pc[t] = "idle" /\ Alive
  /\ s \in m_streams \cup {NoStream}
  /\ IF ~SelectionAllowed(m_timer.status)
     THEN /\ raised' = [raised EXCEPT ![t] = TRUE]
          /\ UNCHANGED << pc, stream, oldStatus, m_timer >>
     ELSE /\ raised' = [raised EXCEPT ![t] = FALSE]
          /\ IF s # m_connectedVideoStream
             THEN /\ pc' = [pc EXCEPT ![t] = "sel_disconnect"]
                  /\ stream' = [stream EXCEPT ![t] = s]
                  /\ oldStatus' = m_timer.status
                  /\ m_timer' = IF m_timer.status = "Playing"
                                THEN [m_timer EXCEPT !.status = "Paused"]
                                ELSE m_timer
             ELSE UNCHANGED << pc, stream, oldStatus, m_timer >>
  /\ UNCHANGED << m_formatCtx, m_eofReached, m_streams, m_ignoredStreams, m_duration,
                  m_synchronized, m_connectedVideoStream,
                  m_pendingDataForActiveStreams, passive, needs, connected,
                  received, pktStream, ledger, destroyed >>

\* selectVideoStream without the disconnect of the previous stream
SelectDisconnect_skipped(t) ==
  /\ pc[t] = "sel_disconnect"
  /\ connected' = connected
  /\ pc' = [pc EXCEPT ![t] = "sel_connect"]
  /\ UNCHANGED << m_formatCtx, m_eofReached, m_streams, m_ignoredStreams, m_duration,
                  m_synchronized, m_timer, m_connectedVideoStream,
                  m_pendingDataForActiveStreams, passive, needs, received,
                  pktStream, ledger, stream, oldStatus, raised, destroyed >>

\* lines 253-256: m_connectedVideoStream->disconnect()
SelectDisconnect(t) ==
  /\ pc[t] = "sel_disconnect"
  /\ connected' = IF m_connectedVideoStream # NoStream
                  THEN connected \ {m_connectedVideoStream}
                  ELSE connected
  /\ pc' = [pc EXCEPT ![t] = "sel_connect"]
  /\ UNCHANGED << m_formatCtx, m_eofReached, m_streams, m_ignoredStreams, m_duration,
                  m_synchronized, m_timer, m_connectedVideoStream,
                  m_pendingDataForActiveStreams, passive, needs, received,
                  pktStream, ledger, stream, oldStatus, raised, destroyed >>

\* lines 258-259: stream->connect()
SelectConnect(t) ==
  /\ pc[t] = "sel_connect"
  /\ connected' = IF stream[t] # NoStream
                  THEN connected \cup {stream[t]}
                  ELSE connected
  /\ pc' = [pc EXCEPT ![t] = "sel_assign"]
  /\ UNCHANGED << m_formatCtx, m_eofReached, m_streams, m_ignoredStreams, m_duration,
                  m_synchronized, m_timer, m_connectedVideoStream,
                  m_pendingDataForActiveStreams, passive, needs, received,
                  pktStream, ledger, stream, oldStatus, raised, destroyed >>

\* lines 261-266: the assignment, the resume of a timer that was playing,
\* and the return
SelectAssign(t) ==
  /\ pc[t] = "sel_assign"
  /\ m_connectedVideoStream' = stream[t]
  /\ m_timer' = IF oldStatus = "Playing"
                THEN [m_timer EXCEPT !.status = "Playing"]
                ELSE m_timer
  /\ pc' = [pc EXCEPT ![t] = "idle"]
  /\ stream' = [stream EXCEPT ![t] = NoStream]
  /\ oldStatus' = "Stopped"
  /\ UNCHANGED << m_formatCtx, m_eofReached, m_streams, m_ignoredStreams, m_duration,
                  m_synchronized, m_pendingDataForActiveStreams, passive,
                  needs, connected, received, pktStream, ledger, raised,
                  destroyed >>

\* selectVideoStream from its first line to its return, lines 242-266: the
\* handler as one step of a thread that nothing interleaves with.  A timer
\* paused at line 248 is set playing again at line 265.
selectVideoStreamWhole(t, s) ==
  /\ pc[t] = "idle" /\ Alive
  /\ s \in m_streams \cup {NoStream}
  /\ IF ~SelectionAllowed(m_timer.status)
     THEN /\ raised' = [raised EXCEPT ![t] = TRUE]
          /\ UNCHANGED << connected, m_connectedVideoStream >>
     ELSE /\ raised' = [raised EXCEPT ![t] = FALSE]
          /\ IF s # m_connectedVideoStream
             THEN /\ connected' =
                       LET disconnected ==
                             IF m_connectedVideoStream # NoStream
                             THEN connected \ {m_connectedVideoStream}
                             ELSE connected
                       IN IF s # NoStream THEN disconnected \cup {s}
                          ELSE disconnected
                  /\ m_connectedVideoStream' = s
             ELSE UNCHANGED << connected, m_connectedVideoStream >>
  /\ UNCHANGED << m_formatCtx, m_eofReached, m_streams, m_ignoredStreams, m_duration,
                  m_synchronized, m_timer, m_pendingDataForActiveStreams,
                  passive, needs, received, pktStream, ledger, pc, stream,
                  oldStatus, destroyed >>

\* ------------------------------------------------------------- destructor
\* the destructor without m_timer->stop()
Destructor_noStop(t) ==
  /\ Alive
  /\ \A u \in Threads : pc[u] = "idle"
  /\ m_timer' = m_timer
  /\ pc' = [pc EXCEPT ![t] = "dtor_unobserve"]
  /\ raised' = [raised EXCEPT ![t] = FALSE]
  /\ UNCHANGED << m_formatCtx, m_eofReached, m_streams, m_ignoredStreams, m_duration,
                  m_synchronized, m_connectedVideoStream,
                  m_pendingDataForActiveStreams, passive, needs, connected,
                  received, pktStream, ledger, stream, oldStatus, destroyed >>

\* lines 189-190: stop the timer unless it is stopped
Destructor(t) ==
  /\ Alive
  /\ \A u \in Threads : pc[u] = "idle"
  /\ m_timer' = [m_timer EXCEPT !.status = "Stopped"]
  /\ pc' = [pc EXCEPT ![t] = "dtor_unobserve"]
  /\ raised' = [raised EXCEPT ![t] = FALSE]
  /\ UNCHANGED << m_formatCtx, m_eofReached, m_streams, m_ignoredStreams, m_duration,
                  m_synchronized, m_connectedVideoStream,
                  m_pendingDataForActiveStreams, passive, needs, connected,
                  received, pktStream, ledger, stream, oldStatus, destroyed >>

\* line 192: m_timer->removeObserver(*this)
DtorRemoveObserver(t) ==
  /\ pc[t] = "dtor_unobserve"
  /\ m_timer' = [m_timer EXCEPT !.observed = FALSE]
  /\ pc' = [pc EXCEPT ![t] = "dtor_close"]
  /\ UNCHANGED << m_formatCtx, m_eofReached, m_streams, m_ignoredStreams, m_duration,
                  m_synchronized, m_connectedVideoStream,
                  m_pendingDataForActiveStreams, passive, needs, connected,
                  received, pktStream, ledger, stream, oldStatus, raised,
                  destroyed >>

\* lines 194-198: avformat_close_input(&m_formatCtx)
DtorClose(t) ==
  /\ pc[t] = "dtor_close"
  /\ m_formatCtx' = [m_formatCtx EXCEPT !.open = FALSE]
  /\ pc' = [pc EXCEPT ![t] = "dtor_flush"]
  /\ UNCHANGED << m_eofReached, m_streams, m_ignoredStreams, m_duration,
                  m_synchronized, m_timer, m_connectedVideoStream,
                  m_pendingDataForActiveStreams, passive, needs, connected,
                  received, pktStream, ledger, stream, oldStatus, raised,
                  destroyed >>

\* the destructor from its first line to its last, lines 187-201: the timer
\* stopped, the observer removed, the container closed and the buffers
\* flushed, as one step of a thread that nothing interleaves with
DestructorWhole(t) ==
  /\ Alive
  /\ \A u \in Threads : pc[u] = "idle"
  /\ CanLock(t)
  /\ m_timer' = [status |-> "Stopped", observed |-> FALSE]
  /\ m_formatCtx' = [m_formatCtx EXCEPT !.open = FALSE]
  /\ ledger' = FlushedLedger(ledger, m_pendingDataForActiveStreams)
  /\ m_pendingDataForActiveStreams' = << >>
  /\ destroyed' = TRUE
  /\ raised' = [raised EXCEPT ![t] = FALSE]
  /\ UNCHANGED << m_eofReached, m_streams, m_ignoredStreams, m_duration, m_synchronized,
                  m_connectedVideoStream, passive, needs, connected, received,
                  pktStream, stream, oldStatus, pc >>

\* ------------------------------------------------------- the environment
\* the transport is played, paused or stopped by its user
TransportChange(t) ==
  /\ pc[t] = "idle" /\ Alive
  /\ \E st \in {"Stopped", "Playing", "Paused"} :
       /\ st # m_timer.status
       /\ m_timer' = [m_timer EXCEPT !.status = st]
  /\ raised' = [raised EXCEPT ![t] = FALSE]
  /\ UNCHANGED << m_formatCtx, m_eofReached, m_streams, m_ignoredStreams, m_duration,
                  m_synchronized, m_connectedVideoStream,
                  m_pendingDataForActiveStreams, passive, needs, connected,
                  received, pktStream, ledger, pc, stream, oldStatus,
                  destroyed >>

\* a stream has decoded its buffered packets and needs data again
Starve(t, s) ==
  /\ pc[t] = "idle" /\ Alive
  /\ s \in m_streams
  /\ ~needs[s]
  /\ needs' = [needs EXCEPT ![s] = TRUE]
  /\ raised' = [raised EXCEPT ![t] = FALSE]
  /\ UNCHANGED << m_formatCtx, m_eofReached, m_streams, m_ignoredStreams, m_duration,
                  m_synchronized, m_timer, m_connectedVideoStream,
                  m_pendingDataForActiveStreams, passive, connected,
                  received, pktStream, ledger, pc, stream, oldStatus,
                  destroyed >>

\* ------------------------------------------------------- specifications
\* the feed path, which any thread may run (a stream's starvation callback)
Feed(t) ==
  \/ \E s \in Ids : feedStream(t, s)
  \/ \E s \in Ids : requestMoreData(t, s)
  \/ FeedIteration(t)
  \/ FeedReturn(t)

Seek(t) ==
  \/ willSeek(t)
  \/ resetEndOfFileStatus(t)
  \/ flushBuffers(t)
  \/ SeekFile(t)

\* selectVideoStream statement by statement
Select(t) ==
  \/ \E s \in Ids \cup {NoStream} : selectVideoStream(t, s)
  \/ SelectDisconnect(t)
  \/ SelectConnect(t)
  \/ SelectAssign(t)

\* the destructor statement by statement
Teardown(t) ==
  \/ Destructor(t)
  \/ DtorRemoveObserver(t)
  \/ DtorClose(t)
  \/ flushBuffers(t)

\* One thread calls the Demuxer of a stopped movie: it selects streams,
\* feeds them, seeks and finally destroys the Demuxer.  Nothing runs
\* between the statements of a selection or of the destructor, which are
\* one step each.
Next ==
  \/ Feed("main")
  \/ Seek("main")
  \/ \E s \in Ids \cup {NoStream} : selectVideoStreamWhole("main", s)
  \/ DestructorWhole("main")
  \/ \E s \in Ids : Starve("main", s)

Spec == Init /\ [][Next]_vars

\* One thread plays, pauses and stops the movie, selects streams, feeds
\* them and destroys the Demuxer; the selection and the destructor are taken
\* statement by statement.
NextTransport ==
  \/ TransportChange("main")
  \/ Select("main")
  \/ Feed("main")
  \/ Teardown("main")

SpecTransport == Init /\ [][NextTransport]_vars

\* One thread selects, feeds and seeks over any container.
NextAnyContainer ==
  \/ \E s \in Ids : feedStream("main", s)
  \/ FeedIteration("main")
  \/ FeedReturn("main")
  \/ willSeek("main")
  \/ resetEndOfFileStatus("main")
  \/ flushBuffers("main")
  \/ SeekFile("main")
  \/ \E s \in Ids \cup {NoStream} : selectVideoStreamWhole("main", s)

SpecAnyContainer == InitAnyContainer /\ [][NextAnyContainer]_vars

\* One thread selects, seeks and destroys the Demuxer of any container with
\* any durations.
NextAnyDuration ==
  \/ Seek("main")
  \/ \E s \in Ids \cup {NoStream} : selectVideoStreamWhole("main", s)
  \/ DestructorWhole("main")

SpecAnyDuration == InitAnyDuration /\ [][NextAnyDuration]_vars

\* Two threads: a stream's starvation callback runs on a second thread
\* while the first thread feeds and seeks.  The behaviours start after the
\* movie has been opened and a video stream (or none) has been selected.
InitMT == \E sel \in Ids \cup {NoStream} : Constructed(sel)

\* One thread feeds and seeks after the selection has been made; the feed
\* loop is not suspended for ever, feedStream being synchronous.
NextFeed ==
  \/ Feed("main")
  \/ Seek("main")
  \/ \E s \in Ids : Starve("main", s)

FairSpec ==
  /\ InitMT /\ [][NextFeed]_vars
  /\ WF_vars(FeedIteration("main")) /\ WF_vars(FeedReturn("main"))

NextMT ==
  \/ Seek("main")
  \/ Feed("main")
  \/ Feed("worker")
  \/ \E s \in Ids : Starve("main", s)

SpecMT == InitMT /\ [][NextMT]_vars

\* ================================================================ claims
RECURSIVE Deliveries(_, _)
\* how many times packet p occurs in the packets received by the streams of S
Deliveries(p, S) ==
  IF S = {} THEN 0
  ELSE LET s == CHOOSE x \in S : TRUE
       IN Count(received[s], p) + Deliveries(p, S \ {s})

\* C1: every packet returned by a container read is, in every state, in
\* exactly one place: pushed once to one stream, freed once (dropped by
\* feedStream or freed by flushBuffers), or still in the pending queue once;
\* the pushes recorded are the packets the streams received; and once the
\* Demuxer is destroyed the pending queue is empty, so every packet read has
\* been pushed or freed.
C1_PacketConservation ==
  /\ \A p \in Packets :
       /\ Pushes(p) + Frees(p) + Queued(p) = 1
       /\ Deliveries(p, m_streams) = Pushes(p)
  /\ destroyed => m_pendingDataForActiveStreams = << >>

C1_Witness ==
  /\ destroyed
  /\ \E p \in Packets : ledger[p] = << "pushed" >>
  /\ \E p \in Packets : ledger[p] = << "dropped" >>
  /\ \E p \in Packets : ledger[p] = << "queued", "flushed" >>

\* C2: when willSeek returns (the step that leaves avformat_seek_file,
\* whether the seek succeeded or failed), the pending queue is empty, the
\* end-of-file flag is false and the call has not thrown.
C2_AfterSeek ==
  [][\A t \in Threads :
       (pc[t] = "ws_seek" /\ pc'[t] = "idle")
         => /\ m_pendingDataForActiveStreams' = << >>
            /\ ~m_eofReached'
            /\ ~raised'[t]]_vars

\* a seek has returned after flushing a queued packet, with the cursor at
\* the end of the file
C2_Witness ==
  /\ pc["main"] = "idle" /\ Alive
  /\ \E p \in Packets : ledger[p] = << "queued", "flushed" >>
  /\ m_formatCtx.pos = Len(m_formatCtx.packets)
  /\ m_formatCtx.ended
  /\ m_pendingDataForActiveStreams = << >>
  /\ ~m_eofReached

\* C3: whenever a stream receives a packet, it receives one packet, that
\* packet carries the stream's identifier, and the stream is in the Stream
\* Table and is the selected video stream at that moment; so a packet queued
\* while its stream was selected is not delivered once the stream is
\* deselected.
C3_Isolation ==
  [][\A s \in m_streams :
       received'[s] # received[s]
         => /\ Len(received'[s]) = Len(received[s]) + 1
            /\ SubSeq(received'[s], 1, Len(received[s])) = received[s]
            /\ pktStream'[received'[s][Len(received'[s])]] = s
            /\ s = m_connectedVideoStream
            /\ m_connectedVideoStream' = m_connectedVideoStream]_vars

\* a packet was queued for the selected stream and, taken from the queue
\* after the stream had been deselected, dropped; another packet was pushed
C3_Witness ==
  /\ \E p \in Packets : ledger[p] = << "queued", "gathered", "dropped" >>
  /\ \E p \in Packets : ledger[p] = << "pushed" >>

\* C4: in every state, including the states inside selectVideoStream, at
\* most one stream is connected; with the disconnect of the previous stream
\* coming before the connect of the new one there is no state with two.
C4_AtMostOneConnected ==
  /\ Cardinality(connected) <= 1
  /\ (\A t \in Threads : pc[t] \notin {"sel_disconnect", "sel_connect", "sel_assign"})
       => connected = {m_connectedVideoStream} \ {NoStream}

\* selectVideoStream is replacing a selected stream by another one: the old
\* one is disconnected, the new one not yet connected
C4_Witness ==
  /\ pc["main"] = "sel_connect"
  /\ m_connectedVideoStream # NoStream
  /\ stream["main"] \notin {NoStream, m_connectedVideoStream}
  /\ connected = {}

\* C5: a selectVideoStream call made while the transport is Playing or
\* Paused throws and is over in that step: the selected stream reference,
\* the connected streams and the transport are unchanged.
C5_SelectionRejected ==
  [][\A s \in Ids \cup {NoStream} :
       (selectVideoStream("main", s) /\ m_timer.status \in {"Playing", "Paused"})
         => /\ raised'["main"]
            /\ pc'["main"] = "idle"
            /\ m_connectedVideoStream' = m_connectedVideoStream
            /\ connected' = connected
            /\ m_timer' = m_timer]_vars

\* a selection has been rejected while a stream is selected and the
\* transport is playing
C5_Witness ==
  /\ raised["main"]
  /\ pc["main"] = "idle"
  /\ m_timer.status = "Playing"
  /\ m_connectedVideoStream # NoStream

\* the step reads packet p from the container during a feed
Reads(p) == Len(pktStream') = Len(pktStream) + 1 /\ p = Len(pktStream')

\* a dropped packet is gone: nothing is done with it any more
DroppedIsFinal ==
  \A p \in Packets :
    Count(ledger[p], "dropped") > 0 =>
      /\ ledger'[p] = ledger[p]
      /\ Count(m_pendingDataForActiveStreams', p) = 0

\* C6 as stated: with a stream selected, a packet read for another stream of
\* the Stream Table is put in the pending queue, neither delivered nor freed.
C6_QueuedForUnselected ==
  [][\A p \in 1 .. Len(pktStream') :
       (/\ Reads(p)
        /\ m_connectedVideoStream \in m_streams
        /\ pktStream'[p] \in m_streams \ {m_connectedVideoStream})
         => /\ Count(m_pendingDataForActiveStreams', p) = 1
            /\ ledger'[p] = << "queued" >>]_vars

\* C6 amended: with a stream selected, a packet read for another stream of
\* the Stream Table is freed in the iteration that read it: it is not put in
\* the pending queue and not delivered, and nothing is done with it later
\* (no seek flush frees it again).
C6_DroppedForUnselected ==
  [][/\ \A p \in 1 .. Len(pktStream') :
          (/\ Reads(p)
           /\ m_connectedVideoStream \in m_streams
           /\ pktStream'[p] \in m_streams \ {m_connectedVideoStream})
            => /\ Count(m_pendingDataForActiveStreams', p) = 0
               /\ ledger'[p] = << "dropped" >>
               /\ received' = received
     /\ DroppedIsFinal]_vars

\* a feed is running with a stream selected, and the last packet read was
\* for another stream of the table and has been dropped
C6_Witness ==
  /\ pc["main"] = "feed"
  /\ m_connectedVideoStream \in m_streams
  /\ Len(pktStream) > 0
  /\ pktStream[Len(pktStream)] \in m_streams \ {m_connectedVideoStream}
  /\ ledger[Len(pktStream)] = << "dropped" >>
  /\ m_pendingDataForActiveStreams = << >>

\* C7: a packet enters the pending queue only in a step in which its stream
\* is the selected stream, and a packet read for any other stream is dropped
\* in the iteration that read it; so the queue never receives a packet for a
\* stream that is not selected.
C7_QueueOnlyForSelected ==
  [][\A p \in 1 .. Len(pktStream') :
       /\ Count(m_pendingDataForActiveStreams', p)
            > Count(m_pendingDataForActiveStreams, p)
            => /\ pktStream'[p] = m_connectedVideoStream
               /\ m_connectedVideoStream \in m_streams
               /\ m_connectedVideoStream' = m_connectedVideoStream
       /\ (Reads(p) /\ pktStream'[p] # m_connectedVideoStream)
            => /\ ledger'[p] = << "dropped" >>
               /\ m_pendingDataForActiveStreams' = m_pendingDataForActiveStreams]_vars

\* a packet for the selected stream is queued and a packet for another
\* stream of the table has been dropped
C7_Witness ==
  /\ \E p \in Packets :
       /\ ledger[p] = << "queued" >>
       /\ Queued(p) = 1
       /\ pktStream[p] = m_connectedVideoStream
  /\ \E p \in Packets :
       /\ ledger[p] = << "dropped" >>
       /\ pktStream[p] \in m_streams

\* C8: in a feed for the selected stream, a packet read for an identifier
\* with no Stream Table entry is dropped in that iteration, without being
\* queued or delivered, and the loop goes on (the thread stays in the loop,
\* the end-of-file flag and the requester's need are unchanged); a packet
\* read for the requester is appended to what the requester received; and a
\* dropped packet is never touched again.
C8_UnknownPacketDropped ==
  [][/\ \A t \in Threads, p \in 1 .. Len(pktStream') :
          (/\ pc[t] = "feed" /\ pc'[t] = "feed"
           /\ stream[t] = m_connectedVideoStream
           /\ Reads(p))
            => /\ pktStream'[p] \notin m_streams
                  => /\ ledger'[p] = << "dropped" >>
                     /\ m_pendingDataForActiveStreams' = m_pendingDataForActiveStreams
                     /\ received' = received
                     /\ m_eofReached' = m_eofReached
                     /\ needs' = needs
               /\ pktStream'[p] = stream[t]
                  => /\ ledger'[p] = << "pushed" >>
                     /\ received'[stream[t]] = Append(received[stream[t]], p)
     /\ DroppedIsFinal]_vars

\* the container gave packets for 0, 1, 0 with stream 0 selected and no
\* table entry for 1: the first and third were delivered in that order, the
\* second dropped, and stream 0 needs no more data
C8_Witness ==
  /\ pc["main"] = "feed" /\ stream["main"] = 0
  /\ m_connectedVideoStream = 0
  /\ 1 \notin m_streams
  /\ pktStream = << 0, 1, 0 >>
  /\ received[0] = << 1, 3 >>
  /\ ledger[2] = << "dropped" >>
  /\ ~needs[0]

\* C9: a feedStream call returns (the thread in the loop is eventually out
\* of it), and when it returns the end-of-file flag is true or the
\* requesting stream needs no more data.
C9_FeedTerminates ==
  /\ \A t \in {"main"} : (pc[t] = "feed") ~> (pc[t] = "idle")
  /\ [][\A t \in Threads :
          (pc[t] = "feed" /\ pc'[t] = "idle")
            => (m_eofReached' \/ ~needs'[stream[t]])]_vars

\* a feed that read the whole file has returned at the end of the file with
\* the requester still needing data
C9_Witness ==
  /\ pc["main"] = "idle"
  /\ m_eofReached
  /\ Len(pktStream) = MaxPackets
  /\ m_formatCtx.pos = MaxPackets
  /\ \E s \in m_streams : needs[s] /\ Len(received[s]) > 0

\* C10: every step that reads the container or changes the pending queue or
\* the end-of-file flag is taken by a thread that holds the mutex: a feed
\* iteration and the reset of the end-of-file flag by a thread that owns
\* it, a flush by a thread that can take it for the flush.
C10_MutexHeld ==
  [][\A t \in Threads :
       /\ (FeedIteration(t) \/ resetEndOfFileStatus(t)) => m_synchronized.owner = t
       /\ flushBuffers(t) => CanLock(t)]_vars

\* C11: willSeek is atomic with respect to feedStream: while a thread is
\* between the end-of-file reset and the return of willSeek, no step of
\* another thread reads the container, changes the pending queue or sets
\* the end-of-file flag; and when willSeek returns the queue is empty and
\* the end-of-file flag is false.
C11_SeekAtomic ==
  [][\A t \in Threads :
       /\ (pc[t] \in {"ws_flush", "ws_seek"} /\ pc'[t] = pc[t])
            => /\ pktStream' = pktStream
               /\ m_formatCtx' = m_formatCtx
               /\ m_pendingDataForActiveStreams' = m_pendingDataForActiveStreams
               /\ (m_eofReached' => m_eofReached)
       /\ (pc[t] = "ws_seek" /\ pc'[t] = "idle")
            => /\ m_pendingDataForActiveStreams' = << >>
               /\ ~m_eofReached']_vars

\* C12: the destructor stops the transport, then removes the Demuxer from
\* the transport's observers, then closes the container, then flushes the
\* pending queue: at each position of the destructor the earlier steps
\* have been done and the later ones not; once the Demuxer is destroyed the
\* queue is empty, the transport is stopped and no longer observed and the
\* container is closed; and no stream receives a packet once the container
\* is closed.
C12_TeardownOrder ==
  /\ [](\A t \in Threads :
          /\ pc[t] = "dtor_unobserve"
               => m_timer.status = "Stopped" /\ m_timer.observed /\ m_formatCtx.open
          /\ pc[t] = "dtor_close"
               => m_timer.status = "Stopped" /\ ~m_timer.observed /\ m_formatCtx.open
          /\ pc[t] = "dtor_flush"
               => m_timer.status = "Stopped" /\ ~m_timer.observed /\ ~m_formatCtx.open
          /\ destroyed
               => /\ m_timer.status = "Stopped" /\ ~m_timer.observed
                  /\ ~m_formatCtx.open
                  /\ m_pendingDataForActiveStreams = << >>)
  /\ [][/\ ~m_formatCtx.open => received' = received
        /\ (m_formatCtx.open /\ ~m_formatCtx'.open)
             => m_pendingDataForActiveStreams' = m_pendingDataForActiveStreams
        /\ (~destroyed /\ destroyed')
             => ~m_formatCtx.open /\ m_pendingDataForActiveStreams' = << >>]_vars

\* the Demuxer has been destroyed after a stream received a packet, and
\* its destructor freed a queued packet
C12_Witness ==
  /\ destroyed
  /\ \E p \in Packets : ledger[p] = << "queued", "flushed" >>
  /\ \E s \in m_streams : received[s] # << >>

\* C13: the end-of-file flag is false after construction; it becomes true
\* only in a feed iteration that finds no packet for the requester in the
\* pending queue and gets none from the container; it becomes false only
\* in resetEndOfFileStatus, called by willSeek or directly.
C13_EofTransitions ==
  /\ ~m_eofReached
  /\ [][/\ (~m_eofReached /\ m_eofReached')
             => \E t \in Threads :
                  /\ FeedIteration(t)
                  /\ gatherQueuedPacketForStream(stream[t]) = 0
                  /\ pktStream' = pktStream
                  /\ m_formatCtx'.pos = m_formatCtx.pos
        /\ (m_eofReached /\ ~m_eofReached')
             => \E t \in Threads :
                  /\ resetEndOfFileStatus(t)
                  /\ pc[t] \in {"ws_reset", "idle"}]_vars

\* the end of the file was reached (a read gave no packet) and the flag has
\* been reset since
C13_Witness ==
  /\ m_formatCtx.ended
  /\ ~m_eofReached
  /\ Len(pktStream) > 0
  /\ \A t \in Threads : pc[t] = "idle"

\* C14: over any container, the Stream Table holds exactly the video
\* streams whose VideoStream was constructed and the Ignored-Stream Table
\* exactly the streams of another kind; the tables are disjoint and a video
\* stream whose construction failed is in neither, whatever comes before or
\* after it; the descriptors of kind Video are the identifiers of the
\* Stream Table, once each; and no step changes the Stream Table.
C14_StreamTables ==
  /\ [](LET kinds == m_formatCtx.streams
        IN /\ m_streams = { i \in Ids : kinds[i] = "video" }
           /\ m_ignoredStreams = { i \in Ids : kinds[i] = "other" }
           /\ m_streams \cap m_ignoredStreams = {}
           /\ \A i \in Ids : kinds[i] = "videoBad"
                => i \notin m_streams \cup m_ignoredStreams
           /\ Range(computeStreamDescriptors("Video")) = m_streams
           /\ Len(computeStreamDescriptors("Video")) = Cardinality(m_streams))
  /\ [][m_streams' = m_streams /\ m_ignoredStreams' = m_ignoredStreams]_vars

\* a video stream that comes after one whose construction failed has been
\* registered, selected and fed, and a seek has rewound the container
C14_Witness ==
  /\ \E i, j \in Ids :
       /\ i < j
       /\ m_formatCtx.streams[i] = "videoBad"
       /\ m_formatCtx.streams[j] = "video"
       /\ j \in m_streams
       /\ received[j] # << >>
  /\ m_formatCtx.pos = 0
  /\ \A t \in Threads : pc[t] = "idle"

\* C15 as stated: getDuration() is the container's duration when the
\* container reports one, else the duration of the first video stream of the
\* Stream Table when that stream reports one, else zero; and no step
\* changes it.
C15_Duration ==
  /\ [](LET c == m_formatCtx.duration
            first == CHOOSE i \in m_streams : \A j \in m_streams : i <= j
        IN getDuration =
             IF c # AV_NOPTS_VALUE THEN ToTime(c)
             ELSE IF m_streams # {} /\ m_formatCtx.durations[first] # AV_NOPTS_VALUE
                  THEN ToTime(m_formatCtx.durations[first])
                  ELSE 0)
  /\ [][m_duration' = m_duration]_vars

\* C15: getDuration() is the container's duration when the container
\* reports one that is not zero; else the duration of the first stream of
\* the Stream Table, in container order, that reports one that is not zero;
\* else zero; and no step changes it.
C15_DurationResolved ==
  /\ [](LET c == m_formatCtx.duration
            known == { i \in m_streams :
                         /\ m_formatCtx.durations[i] # AV_NOPTS_VALUE
                         /\ ToTime(m_formatCtx.durations[i]) # 0 }
            first == CHOOSE i \in known : \A j \in known : i <= j
        IN getDuration =
             IF c # AV_NOPTS_VALUE /\ ToTime(c) # 0 THEN ToTime(c)
             ELSE IF known # {} THEN ToTime(m_formatCtx.durations[first])
                  ELSE 0)
  /\ [][m_duration' = m_duration]_vars

\* the container reports no duration and the first video stream none
\* either: the Demuxer, now destroyed, still has the duration of the second
C15_Witness ==
  /\ destroyed
  /\ m_formatCtx.duration = AV_NOPTS_VALUE
  /\ \E i, j \in m_streams :
       /\ i < j
       /\ \A k \in m_streams : i <= k
       /\ m_formatCtx.durations[i] = AV_NOPTS_VALUE
       /\ m_formatCtx.durations[j] = 2 * AV_TIME_BASE
       /\ getDuration = 2000000

\* C16: in a feed iteration that has a packet (gathered from the queue or
\* read), the packet is pushed to its destination exactly when the
\* destination is in the Stream Table, is the selected stream and is the
\* requester or passive; it is appended to the pending queue exactly when
\* the destination is the selected stream and is neither the requester nor
\* passive; otherwise it is neither pushed nor queued but freed as not
\* accepted.  A queued packet's destination is in the Stream Table, is not
\* the requester and is not passive.
C16_DispatchTable ==
  [][\A t \in Threads :
       FeedIteration(t) =>
         LET s == stream[t]
             g == gatherQueuedPacketForStream(s)
             handled == g # 0 \/ Len(pktStream') > Len(pktStream)
             pkt == IF g # 0 THEN m_pendingDataForActiveStreams[g]
                    ELSE Len(pktStream')
             dest == pktStream'[pkt]
             rest == IF g # 0 THEN RemoveAt(m_pendingDataForActiveStreams, g)
                     ELSE m_pendingDataForActiveStreams
             toPush == /\ dest \in m_streams
                       /\ dest = m_connectedVideoStream
                       /\ (dest = s \/ dest \in passive)
             toQueue == /\ dest = m_connectedVideoStream
                        /\ dest # s
                        /\ dest \notin passive
         IN handled =>
              /\ IF toPush
                 THEN /\ received' = [received EXCEPT ![dest] = Append(@, pkt)]
                      /\ ledger'[pkt] = Append(IF g # 0 THEN ledger[pkt] \o << "gathered" >>
                                               ELSE << >>, "pushed")
                 ELSE received' = received
              /\ IF toQueue
                 THEN /\ m_pendingDataForActiveStreams' = Append(rest, pkt)
                      /\ dest \in m_streams
                 ELSE m_pendingDataForActiveStreams' = rest
              /\ (Count(ledger'[pkt], "dropped") = 1) <=> (~toPush /\ ~toQueue)]_vars

\* in one behaviour a packet was pushed to a passive stream, a packet was
\* queued and a packet of a stream of the table was freed as not accepted
C16_Witness ==
  /\ \E p \in Packets : ledger[p] = << "pushed" >> /\ pktStream[p] \in passive
  /\ \E p \in Packets : Count(ledger[p], "queued") = 1
  /\ \E p \in Packets : ledger[p] = << "dropped" >> /\ pktStream[p] \in m_streams

\* C17: a feed iteration looks in the pending queue first.  When the queue
\* holds packets of the requester, the first of them is taken out and
\* used, the rest of the queue is left as it was, and the container is not
\* read; when it holds none, the iteration reads the container: the cursor
\* moves by one packet, or the read fails and the end-of-file flag is set.
C17_QueueFirst ==
  [][\A t \in Threads :
       FeedIteration(t) =>
         LET s == stream[t]
             q == m_pendingDataForActiveStreams
             usable == { i \in 1 .. Len(q) : pktStream[q[i]] = s }
             h == CHOOSE i \in usable : \A j \in usable : i <= j
         IN IF usable # {}
            THEN /\ Len(ledger'[q[h]]) > Len(ledger[q[h]])
                 /\ ledger'[q[h]][Len(ledger[q[h]]) + 1] = "gathered"
                 /\ m_pendingDataForActiveStreams'
                      = SubSeq(q, 1, h - 1) \o SubSeq(q, h + 1, Len(q))
                 /\ m_formatCtx' = m_formatCtx
                 /\ pktStream' = pktStream
            ELSE \/ /\ Len(pktStream') = Len(pktStream) + 1
                    /\ m_formatCtx'.pos = m_formatCtx.pos + 1
                 \/ /\ pktStream' = pktStream
                    /\ m_formatCtx'.pos = m_formatCtx.pos
                    /\ m_eofReached']_vars

\* a feed has taken the first of two queued packets of its requester and
\* left the second in the queue
C17_Witness ==
  /\ pc["main"] = "feed"
  /\ Len(m_pendingDataForActiveStreams) = 1
  /\ pktStream[m_pendingDataForActiveStreams[1]] = stream["main"]
  /\ \E p \in Packets :
       /\ p < m_pendingDataForActiveStreams[1]
       /\ pktStream[p] = stream["main"]
       /\ Count(ledger[p], "gathered") = 1

\* C18: feedStream never reads past what its requester needs.  The position
\* of the container advances only in a step of a feed whose requester
\* reported, before the step, that it needs data; and every step of a
\* feedStream call whose requester needs no data (the entry into the call
\* and its return) leaves the container, the pending queue, the end-of-file
\* flag and every stream's received packets as they were, and such a call
\* can only return.
C18_NoOverread ==
  [][/\ m_formatCtx'.pos > m_formatCtx.pos =>
          \E t \in Threads : pc[t] = "feed" /\ needs[stream[t]]
     /\ \A t \in Threads :
          LET s == IF pc[t] = "feed" THEN stream[t] ELSE stream'[t]
          IN ((pc[t] = "feed" \/ pc'[t] = "feed") /\ ~needs[s]) =>
               /\ m_formatCtx' = m_formatCtx
               /\ m_pendingDataForActiveStreams' = m_pendingDataForActiveStreams
               /\ m_eofReached' = m_eofReached
               /\ received' = received
               /\ pktStream' = pktStream
               /\ pc[t] = "feed" => pc'[t] = "idle"]_vars

\* a feed was called for a stream that needs no data and is not the selected
\* one, so that nothing was pushed to it during the call, while the end of
\* file is not reached and the container has a packet to give
C18_Witness ==
  /\ pc["main"] = "feed"
  /\ ~needs[stream["main"]]
  /\ m_connectedVideoStream # stream["main"]
  /\ ~m_eofReached
  /\ m_formatCtx.pos < Len(m_formatCtx.packets)

\* C19: the mutex is held only for one read, dispatch or queue operation.
\* A thread that is in feedStream between two iterations of the loop, where
\* the requester's needsMoreData() is asked, does not own the mutex, so
\* that another thread can take it there; and a thread that is in no call
\* owns no level of it, every exit of feedStream having released it.
C19_ScopedLock ==
  \A t \in Threads :
    /\ pc[t] = "feed" => (m_synchronized.owner # t /\ \A u \in Threads : CanLock(u))
    /\ pc[t] = "idle" => m_synchronized.owner # t

\* C20: packets reach a stream in the order in which the container gave
\* them.  Packets are numbered in the order of the reads, so: the packets a
\* stream has received are in increasing order, whether they were pushed
\* when read or queued first and pushed by a later feed; the pending queue
\* is in increasing order (insertion order is read order); and a packet is
\* queued at most once and leaves the queue exactly once, gathered by a
\* feed of its own stream or freed by a flush: it is in the queue exactly
\* when it was queued and has not left.
C20_OrderPreserved ==
  /\ \A s \in m_streams : \A i, j \in 1 .. Len(received[s]) :
       i < j => received[s][i] < received[s][j]
  /\ \A i, j \in 1 .. Len(m_pendingDataForActiveStreams) :
       i < j => m_pendingDataForActiveStreams[i] < m_pendingDataForActiveStreams[j]
  /\ \A p \in Packets :
       LET left == Count(ledger[p], "gathered") + Count(ledger[p], "flushed")
       IN /\ Count(ledger[p], "queued") <= 1
          /\ left <= Count(ledger[p], "queued")
          /\ Count(m_pendingDataForActiveStreams, p) = Count(ledger[p], "queued") - left
          /\ Count(ledger[p], "gathered") = 1 =>
               \E i \in 1 .. Len(ledger[p]) - 1 :
                 ledger[p][i] = "queued" /\ ledger[p][i + 1] = "gathered"

\* a stream has received a packet pushed when it was read and, after it, a
\* later packet that waited in the pending queue, while a third packet of
\* the same pass was freed by a flush
C20_Witness ==
  \E s \in m_streams : \E p1, p2, p3 \in Packets :
    /\ received[s] = << p1, p2 >>
    /\ ledger[p1] = << "pushed" >>
    /\ ledger[p2] = << "queued", "gathered", "pushed" >>
    /\ ledger[p3] = << "queued", "flushed" >>

C22_UnselectedFeedToEof ==
  [][\A t \in Threads :
       LET s == stream[t]
           sel == m_connectedVideoStream
           q == m_pendingDataForActiveStreams
           handled == { p \in 1 .. Len(pktStream) : ledger'[p] # ledger[p] }
                        \cup (Len(pktStream) + 1 .. Len(pktStream'))
       IN (pc[t] = "feed" /\ s \in m_streams /\ s # sel /\ needs[s]) =>
            /\ received'[s] = received[s]
            /\ needs'[s]
            /\ pc'[t] = "idle" =>
                 /\ m_eofReached
                 /\ m_formatCtx.ended
                 /\ m_formatCtx.pos = Len(m_formatCtx.packets)
                 /\ handled = {}
            /\ \A p \in handled :
                 LET index == pktStream'[p]
                     last == ledger'[p][Len(ledger'[p])]
                 IN /\ ledger'[p] # << >>
                    /\ IF index # sel \/ index \notin m_streams
                       THEN /\ last = "dropped"
                            /\ received' = received
                            /\ Count(m_pendingDataForActiveStreams', p) = 0
                            /\ Len(m_pendingDataForActiveStreams') <= Len(q)
                       ELSE IF index \in passive
                       THEN /\ last = "pushed"
                            /\ received'[index] = Append(received[index], p)
                            /\ m_pendingDataForActiveStreams' = q
                       ELSE /\ last = "queued"
                            /\ received' = received
                            /\ m_pendingDataForActiveStreams' = Append(q, p)]_vars

\* a feed of a stream that is not the selected one has reached the end of
\* the file: a packet of the requester was dropped and a packet of the
\* selected stream, which is not passive, is in the pending queue
C22_Witness ==
  /\ pc["main"] = "feed"
  /\ stream["main"] # m_connectedVideoStream
  /\ m_connectedVideoStream \in m_streams \ passive
  /\ needs[stream["main"]]
  /\ m_eofReached
  /\ \E p \in Packets :
       pktStream[p] = stream["main"] /\ ledger[p] = << "dropped" >>
  /\ \E i \in 1 .. Len(m_pendingDataForActiveStreams) :
       pktStream[m_pendingDataForActiveStreams[i]] = m_connectedVideoStream

\* the same with a passive selected stream, which received a packet during
\* the feed of the other stream
C22_WitnessPassive ==
  /\ pc["main"] = "feed"
  /\ stream["main"] # m_connectedVideoStream
  /\ m_connectedVideoStream \in passive
  /\ needs[stream["main"]]
  /\ m_eofReached
  /\ received[m_connectedVideoStream] # << >>

====
